---- MODULE Spec2Model ----
(***************************************************************************)
(* A model of the chapter-archival pipeline of adamfitz/scrape and of its  *)
(* retrying fetch helpers.                                                 *)
(*                                                                         *)
(* Strings and HTTP bodies are sequences of byte values, so that prefix    *)
(* tests, suffix tests and byte-wise ordering are computed, not postulated. *)
(***************************************************************************)
EXTENDS Integers, Sequences, FiniteSets, TLC

VARIABLES
    \* ---- webClient.FetchImageBytes (one caller issuing fetches in turn)
    fPc,          \* "idle" | "loop" | "done": position of the caller / the retry loop
    fAttempt,     \* the loop variable `attempt`
    fLastErr,     \* the local `lastErr`
    fResponses,   \* the answers client.Do gave during the current call, in order
    fResult,      \* what the call returned: [body, err]
    fCalls,       \* number of calls started so far
    \* ---- the download commands (one process, run after run)
    site,         \* which site's download function runs
    remote,       \* what the site lists: key -> chapter URL (kunmanga: the slugs)
    fs,           \* the destination directory ".": name -> entry
    tmpfs,        \* the scratch directories: path -> (file name -> bytes)
    chapterMap,   \* the local `chapterMap` (after the deletions, where made)
    existing,     \* the names the run found already downloaded
    queue,        \* the sorted list the chapter loop ranges over
    idx,          \* position of the chapter loop in queue
    pc,           \* position of the process
    imgs,         \* image URLs of the chapter being processed
    imgIdx,       \* position of the image loop in imgs
    kAttempt,     \* kunmanga: the loop variable `attempt` of the image being fetched
    tempDir,      \* scratch directory of the chapter being processed
    tempDirList,  \* the slice handed to parser.CleanupTempDirs
    dirSeq,       \* number of scratch directories os.MkdirTemp has made
    zFiles,       \* CreateCbzFromDir: the files still to add to the open archive
    run,          \* number of the current run
    \* ---- history, read by the properties only
    startFs,      \* the destination directory as the current run found it
    processed,    \* keys whose processing began in this run, in order
    wanted,       \* key -> the files CreateCbzFromDir listed for its archive
    archivedOk,   \* queue positions whose archive function returned nil in this run
    prevRun,      \* the previous run: how it ended, chapters queued, chapters archived
    \* ---- the naming functions, applied to the tokens of a chapter list
    rawNum,       \* the tokens of the listed chapters, in page order
    nPc,          \* "raw", or the function that has been applied to the tokens
    filenames,    \* what the function returned for each token: [name, err]
    urlMap,       \* ravenscans.chapterUrls: the local `chapterMap`, key -> list position
    \* ---- parser.CreateCbzFromDir, called on a directory
    sourceDir,    \* the directory: name -> [dir, bytes]
    dirEntries,   \* the order in which the directory listing returns the names
    fileList,     \* the local `files` after sort.Strings, the part still to add
    zipOut,       \* the file at zipName: none, or the archive written so far
    cPc,          \* "call" | "adding" | "nil" | "err": position of the function
    \* ---- parser.DownloadAndConvertToJPG, called on the image URLs of a chapter
    imageURLs,    \* the image URLs of the chapter, in page order
    saved,        \* per URL gone through: the file name written, or the error
    imgBytes,     \* per URL gone through: the buffer io.ReadAll gave, if any
    targetDir,    \* the directory written to: file name -> [url, bytes] written last
    \* ---- parser.MgekoUrlToName, called on the -url flag
    mgUrl,        \* the URL: its segments and its text
    mgName,       \* <<>>, or the one string the function returned
    \* ---- webClient.FetchWithBackoff / FetchChapterPage (one caller, call after call)
    bFunc,        \* which of the two functions is called
    bPc,          \* "idle" | "loop" | "done": position of the caller / the loop
    backoff,      \* the local `backoff`, in seconds
    retriesAtMax, \* the local `retriesAtMax`
    bAttempt,     \* the local `attempt`
    delays,       \* the time.Sleep durations of the current call, in order
    bLast,        \* the answer the last request of the current call got
    bResult,      \* what the call returned: [body, err]
    bCalls,       \* number of calls started so far
    prevPeak      \* the backoff a successful previous call had reached before it returned

fetchVars == <<fPc, fAttempt, fLastErr, fResponses, fResult, fCalls>>
listVars == <<site, remote>>
loopVars == <<chapterMap, existing, queue, idx>>
imageVars == <<imgs, imgIdx, kAttempt>>
dirVars == <<tempDir, tempDirList, dirSeq>>
histVars == <<startFs, processed, wanted, archivedOk, prevRun>>
pipeVars == <<listVars, fs, tmpfs, loopVars, pc, imageVars, dirVars, zFiles, run, histVars>>
nameVars == <<rawNum, nPc, filenames, urlMap>>
cbzVars == <<sourceDir, dirEntries, fileList, zipOut, cPc>>
pageVars == <<imageURLs, saved, imgBytes, targetDir>>
mgekoVars == <<mgUrl, mgName>>
backoffVars == <<bFunc, bPc, backoff, retriesAtMax, bAttempt, delays, bLast, bResult, bCalls,
                 prevPeak>>
moreVars == <<mgekoVars, backoffVars>>
pureVars == <<nameVars, cbzVars, pageVars, moreVars>>
vars == <<fetchVars, pipeVars, pureVars>>

(***************************************************************************)
(* Byte strings                                                            *)
(***************************************************************************)
\* bytes.HasPrefix / strings.HasPrefix
HasPrefix(s, p) == Len(s) >= Len(p) /\ SubSeq(s, 1, Len(p)) = p

\* strings.HasSuffix
HasSuffix(s, p) == Len(s) >= Len(p) /\ SubSeq(s, Len(s) - Len(p) + 1, Len(s)) = p

\* The ASCII bytes bytes.TrimSpace removes: \t \n \v \f \r and space.
asciiSpace == {9, 10, 11, 12, 13, 32}

RECURSIVE TrimLeft(_)
TrimLeft(s) == IF s # <<>> /\ Head(s) \in asciiSpace THEN TrimLeft(Tail(s)) ELSE s

RECURSIVE TrimRight(_)
TrimRight(s) ==
    IF s # <<>> /\ s[Len(s)] \in asciiSpace THEN TrimRight(SubSeq(s, 1, Len(s) - 1)) ELSE s

\* bytes.TrimSpace: white space is removed at both ends.
TrimSpace(s) == TrimRight(TrimLeft(s))

\* Byte-wise lexicographic order, the order of Go's string `<` and sort.Strings.
RECURSIVE StrLess(_, _)
StrLess(a, b) ==
    IF b = <<>> THEN FALSE
    ELSE IF a = <<>> THEN TRUE
    ELSE IF Head(a) # Head(b) THEN Head(a) < Head(b)
    ELSE StrLess(Tail(a), Tail(b))

Doctype == <<60, 33, 68, 79, 67, 84, 89, 80, 69>>     \* "<!DOCTYPE"
HtmlTag == <<60, 104, 116, 109, 108>>                 \* "<html"
imagePrefix == <<105, 109, 97, 103, 101, 47>>         \* "image/"

(***************************************************************************)
(* HTTP bodies and headers the servers of the model can send               *)
(***************************************************************************)
JpegBody == <<255, 216, 255, 224, 0, 16, 74, 70, 73, 70, 0, 1>>
PngBody == <<137, 80, 78, 71, 13, 10, 26, 10, 0, 0, 0, 13, 73, 72, 68, 82>>
GifBody == <<71, 73, 70, 56, 57, 97, 1, 0, 1, 0, 0, 0>>
WebpBody == <<82, 73, 70, 70, 26, 0, 0, 0, 87, 69, 66, 80, 86, 80, 56, 32>>
HtmlBody == <<60, 104, 116, 109, 108, 62, 60, 98, 111, 100, 121, 62>>          \* "<html><body>"
SpacedHtmlBody == <<32, 10, 60, 104, 116, 109, 108, 62, 60, 98, 111, 100, 121, 62>>
DoctypeBody == <<60, 33, 68, 79, 67, 84, 89, 80, 69, 32, 104, 116, 109, 108, 62>>
ShortBody == <<255, 216, 255>>
TextBody == <<110, 111, 116, 32, 102, 111, 117, 110, 100, 33, 33, 33>>        \* "not found!!!"

ImageJpegType == <<105, 109, 97, 103, 101, 47, 106, 112, 101, 103>>           \* "image/jpeg"
TextHtmlType == <<116, 101, 120, 116, 47, 104, 116, 109, 108>>                \* "text/html"

NoBody == <<>>

(***************************************************************************)
(* webClient.FetchImageBytes                                               *)
(***************************************************************************)
maxRetries == 3

\* Number of FetchImageBytes calls the caller makes.
MaxFetches == 2

\* What client.Do and the reading of the body can give for one request.
\* kind "transport": client.Do returned an error; "http": a response, whose
\* body may fail to be read (readOk = FALSE).
FetchBodies == {JpegBody, HtmlBody, SpacedHtmlBody, DoctypeBody, TextBody}
FetchTypes == {ImageJpegType, TextHtmlType, <<>>}

FetchAnswers ==
    {[kind |-> "transport", status |-> 0, body |-> NoBody, ctype |-> <<>>, readOk |-> FALSE]}
    \cup {[kind |-> "http", status |-> s, body |-> HtmlBody, ctype |-> TextHtmlType, readOk |-> TRUE]
            : s \in {404, 500, 503, 525, 599}}
    \cup {[kind |-> "http", status |-> 200, body |-> b, ctype |-> t, readOk |-> TRUE]
            : b \in FetchBodies, t \in FetchTypes}
    \cup {[kind |-> "http", status |-> 200, body |-> JpegBody, ctype |-> ImageJpegType, readOk |-> FALSE]}

\* `for attempt := 1; attempt <= maxRetries; attempt++`
RetryLoopCondStale(attempt) == attempt <= maxRetries + 1
RetryLoopCond(attempt) == attempt <= maxRetries

\* `resp.StatusCode >= 500 && resp.StatusCode < 600 || resp.StatusCode == 525`
RetryableStatusNarrow(status) == status = 500
RetryableStatus(status) == (status >= 500 /\ status < 600) \/ status = 525

\* The HTML test on the body that was read.
LooksLikeHtmlUntrimmed(body) == HasPrefix(body, Doctype) \/ HasPrefix(body, HtmlTag)
LooksLikeHtml(body) ==
    HasPrefix(TrimSpace(body), Doctype) \/ HasPrefix(TrimSpace(body), HtmlTag)

\* One pass through the loop body for the answer r: either the loop goes on
\* (retry = TRUE, with the new lastErr) or the function returns [body, err].
FetchAttemptOutcome(r) ==
    IF r.kind = "transport"
    THEN [retry |-> TRUE, lastErr |-> "transport", body |-> NoBody, err |-> "nil"]
    ELSE IF RetryableStatus(r.status)
    THEN [retry |-> TRUE, lastErr |-> "http5xx", body |-> NoBody, err |-> "nil"]
    ELSE IF r.status # 200
    THEN [retry |-> FALSE, lastErr |-> "nil", body |-> NoBody, err |-> "status"]
    ELSE IF ~r.readOk
    THEN [retry |-> FALSE, lastErr |-> "nil", body |-> NoBody, err |-> "read"]
    ELSE IF LooksLikeHtml(r.body)
    THEN [retry |-> FALSE, lastErr |-> "nil", body |-> NoBody, err |-> "html"]
    ELSE IF ~HasPrefix(r.ctype, imagePrefix)
    THEN [retry |-> FALSE, lastErr |-> "nil", body |-> NoBody, err |-> "ctype"]
    ELSE [retry |-> FALSE, lastErr |-> "nil", body |-> r.body, err |-> "nil"]

NoResult == [body |-> NoBody, err |-> "none"]

\* The value `attempt` has when a call enters its loop.
FirstAttemptStale == IF fAttempt > 1 THEN fAttempt - 1 ELSE 1
FirstAttempt == 1

FetchIdle ==
    /\ fPc = "idle" /\ fAttempt = 0 /\ fLastErr = "nil"
    /\ fResponses = <<>> /\ fResult = NoResult /\ fCalls = 0

\* The caller invokes FetchImageBytes: the locals are initialised.
FetchCall ==
    /\ fPc = "idle"
    /\ fCalls < MaxFetches
    /\ fPc' = "loop"
    /\ fAttempt' = FirstAttempt
    /\ fLastErr' = "nil"
    /\ fResponses' = <<>>
    /\ fResult' = NoResult
    /\ fCalls' = fCalls + 1
    /\ UNCHANGED <<pipeVars, pureVars>>

\* One iteration of the retry loop.
FetchAttempt ==
    /\ fPc = "loop"
    /\ RetryLoopCond(fAttempt)
    /\ \E r \in FetchAnswers :
        LET o == FetchAttemptOutcome(r) IN
        /\ fResponses' = Append(fResponses, r)
        /\ IF o.retry
           THEN /\ fLastErr' = o.lastErr
                /\ fAttempt' = fAttempt + 1
                /\ UNCHANGED <<fPc, fResult>>
           ELSE /\ fPc' = "done"
                /\ fResult' = [body |-> o.body, err |-> o.err]
                /\ UNCHANGED <<fAttempt, fLastErr>>
    /\ UNCHANGED fCalls
    /\ UNCHANGED <<pipeVars, pureVars>>

\* The loop condition fails: `failed after 3 attempts`.
FetchExhausted ==
    /\ fPc = "loop"
    /\ ~RetryLoopCond(fAttempt)
    /\ fPc' = "done"
    /\ fResult' = [body |-> NoBody, err |-> "exhausted"]
    /\ UNCHANGED <<fAttempt, fLastErr, fResponses, fCalls>>
    /\ UNCHANGED <<pipeVars, pureVars>>

\* The caller takes the result and goes on to its next image.
FetchReturn ==
    /\ fPc = "done"
    /\ fPc' = "idle"
    /\ UNCHANGED <<fAttempt, fLastErr, fResponses, fResult, fCalls>>
    /\ UNCHANGED <<pipeVars, pureVars>>

(***************************************************************************)
(* Formatting and parsing of names                                         *)
(***************************************************************************)
Dot == 46
Slash == 47
CbzExt == <<46, 99, 98, 122>>                         \* ".cbz"
JpgExt == <<46, 106, 112, 103>>                       \* ".jpg"
ChPrefix == <<99, 104>>                               \* "ch"
ChapterDash == <<99, 104, 97, 112, 116, 101, 114, 45>>      \* "chapter-"
IsDigit(b) == b >= 48 /\ b <= 57

\* The decimal digits of n >= 0, as fmt's %d writes them.
RECURSIVE Digits(_)
Digits(n) == IF n < 10 THEN <<48 + n>> ELSE Digits(n \div 10) \o <<48 + (n % 10)>>

\* The digits as they are, without padding.
PadNone(s, w) == s

\* Zero padding on the left up to width w, as the verbs %02d and %03d do.
RECURSIVE PadZero(_, _)
PadZero(s, w) == IF Len(s) >= w THEN s ELSE PadZero(<<48>> \o s, w)

\* strconv.Atoi on a string of decimal digits; any other string is an
\* error, for which Atoi returns 0.
RECURSIVE DigitsValue(_)
DigitsValue(s) == IF s = <<>> THEN 0 ELSE 10 * DigitsValue(SubSeq(s, 1, Len(s) - 1)) + (s[Len(s)] - 48)
Atoi(s) == IF s # <<>> /\ \A i \in 1..Len(s) : IsDigit(s[i]) THEN DigitsValue(s) ELSE 0

\* strings.ToLower on ASCII.
ToLower(s) == [i \in 1..Len(s) |-> IF s[i] >= 65 /\ s[i] <= 90 THEN s[i] + 32 ELSE s[i]]

\* filepath.Ext: the suffix beginning at the last dot, "" without a dot.
Ext(s) ==
    LET dots == {i \in 1..Len(s) : s[i] = Dot} IN
    IF dots = {} THEN <<>>
    ELSE LET last == CHOOSE i \in dots : \A j \in dots : j <= i IN SubSeq(s, last, Len(s))

\* strings.TrimSuffix
TrimSuffix(s, p) == IF HasSuffix(s, p) THEN SubSeq(s, 1, Len(s) - Len(p)) ELSE s

\* The key a site's chapter map holds for chapter n: "ch" + the number
\* padded to three digits + ".cbz".
ChapterKey(n) == ChPrefix \o PadZero(Digits(n), 3) \o CbzExt

\* parser.CBZExists / kunmanga.DownloadKunMangaChapters: the archive name
\* of chapter number n.
CbzName(chapterNumber) ==
    IF chapterNumber < 10
    THEN ChPrefix \o PadZero(Digits(chapterNumber), 2) \o CbzExt
    ELSE ChPrefix \o Digits(chapterNumber) \o CbzExt

\* The leading run of decimal digits of s.
RECURSIVE LeadingDigits(_)
LeadingDigits(s) ==
    IF s # <<>> /\ IsDigit(Head(s)) THEN <<Head(s)>> \o LeadingDigits(Tail(s)) ELSE <<>>

\* kunmanga.ParseChapterNumber
ParseChapterNumber(slug) ==
    IF ~HasPrefix(ToLower(slug), ChapterDash) THEN 0
    ELSE Atoi(LeadingDigits(SubSeq(ToLower(slug), Len(ChapterDash) + 1, Len(slug))))

\* parser.padFileName on a name holding a dot: the part before the first
\* dot goes through Atoi and %03d, the rest is kept.
padFileName(inputFileName) ==
    LET dots == {i \in 1..Len(inputFileName) : inputFileName[i] = Dot}
        first == CHOOSE i \in dots : \A j \in dots : i <= j
    IN PadZero(Digits(Atoi(SubSeq(inputFileName, 1, first - 1))), 3)
        \o SubSeq(inputFileName, first, Len(inputFileName))

\* fmt.Sprintf("%03d.jpg", n)
OrderFileName(n) == PadZero(Digits(n), 3) \o JpgExt

(***************************************************************************)
(* Directories                                                             *)
(***************************************************************************)
\* Entries of the destination directory.  An archive is the list of the
\* entries written to it so far and whether its central directory has been
\* written (closed); an archive of an earlier installation is kind "old".
DirEntry == [kind |-> "dir", entries |-> <<>>, closed |-> FALSE, bytes |-> <<>>]
OldArchive == [kind |-> "old", entries |-> <<>>, closed |-> TRUE, bytes |-> <<>>]
OldPage == [kind |-> "oldpage", entries |-> <<>>, closed |-> FALSE, bytes |-> <<>>]
Zip(entries, closed) == [kind |-> "zip", entries |-> entries, closed |-> closed, bytes |-> <<>>]
PageFile(bytes) == [kind |-> "page", entries |-> <<>>, closed |-> FALSE, bytes |-> bytes]
IsDir(e) == e.kind = "dir"

Put(f, k, v) == [x \in (DOMAIN f) \cup {k} |-> IF x = k THEN v ELSE f[x]]
Remove(f, S) == [x \in (DOMAIN f) \ S |-> f[x]]
Range(s) == {s[i] : i \in 1..Len(s)}
EmptyMap == [x \in {} |-> 0]

\* sort.Strings: the elements of S in ascending byte-wise order.
RECURSIVE SortStrings(_)
SortStrings(S) ==
    IF S = {} THEN <<>>
    ELSE LET least == CHOOSE x \in S : \A y \in S \ {x} : StrLess(x, y)
         IN <<least>> \o SortStrings(S \ {least})

\* parser.SortKeys: the keys of the map, gathered in the map's iteration
\* order and then sorted with sort.Strings.
SortKeysUnsorted(inputMap) ==
    LET s == SortStrings(DOMAIN inputMap) IN [i \in 1..Len(s) |-> s[Len(s) + 1 - i]]
SortKeys(inputMap) == SortStrings(DOMAIN inputMap)

\* parser.GetDownloadedCBZ: the non-directory entries whose name ends in ".cbz".
GetDownloadedCBZAnyEntry(dir) == {n \in DOMAIN dir : HasSuffix(n, CbzExt)}
GetDownloadedCBZ(dir) == {n \in DOMAIN dir : ~IsDir(dir[n]) /\ HasSuffix(n, CbzExt)}

\* parser.FileList without exclusions: the non-directory entries.
FileList(rootDir) == {n \in DOMAIN rootDir : ~IsDir(rootDir[n])}

\* parser.FilterCBZFiles: the names whose extension equals ".cbz" ignoring case.
FilterCBZFiles(files) == {f \in files : ToLower(Ext(f)) = CbzExt}

\* parser.CBZExists: os.Stat finds an entry of that name, of any kind.
CBZExistsWide(dir, chapterNumber) ==
    (ChPrefix \o PadZero(Digits(chapterNumber), 3) \o CbzExt) \in DOMAIN dir
CBZExists(dir, chapterNumber) == CbzName(chapterNumber) \in DOMAIN dir

(***************************************************************************)
(* What the sites serve                                                    *)
(***************************************************************************)
\* Chapters the site lists, images per chapter, runs of the command.
MaxChapter == 2
MaxImages == 2
MaxRuns == 2

KeySites == {"asura", "stonescape", "mgeko", "ravenscans"}
HandlerSites == {"asura", "stonescape"}
Sites == KeySites \cup {"kunmanga"}

ChapterUrl(n) == <<47>> \o Digits(n)                  \* "/<n>"
ChapterSlug(n) == ChapterDash \o Digits(n)            \* "chapter-<n>"
SubChapterSlug(n) == ChapterDash \o Digits(n) \o <<45, 53>>     \* "chapter-<n>-5"

\* The chapter map a key site lists.
RemoteMap == [k \in {ChapterKey(n) : n \in 1..MaxChapter} |->
                ChapterUrl(CHOOSE n \in 1..MaxChapter : ChapterKey(n) = k)]

\* The chapter URLs kunmanga lists, newest first, as slugs.
SlugLists ==
    {[i \in 1..MaxChapter |-> ChapterSlug(MaxChapter + 1 - i)],
     <<SubChapterSlug(1), ChapterSlug(1)>>}

\* The destination directories a run can find: each archive name is absent,
\* an archive of an earlier installation, or a directory.
LocalNames(s) ==
    IF s = "kunmanga" THEN {CbzName(n) : n \in 1..MaxChapter}
    ELSE {ChapterKey(n) : n \in 1..MaxChapter}
LocalDirs(s) ==
    UNION {[S -> {OldArchive, DirEntry}] : S \in SUBSET LocalNames(s)}

\* The last path element of the i-th image URL of a chapter: "<i>.jpg".
ImageUrl(i) == Digits(i) \o JpgExt
ImageLists == {[i \in 1..n |-> ImageUrl(i)] : n \in 0..MaxImages}

\* jpeg.Encode writes a JPEG stream: SOI, then the quantisation tables.
EncodedJpeg == <<255, 216, 255, 219, 0, 67, 0, 3, 2, 2, 3, 2>>

\* What a GET of an image URL can give.  decodes: image.Decode accepts it.
PageBodies == {JpegBody, PngBody, HtmlBody, ShortBody}
PageAnswers ==
    {[kind |-> "transport", status |-> 0, body |-> NoBody, readOk |-> FALSE, decodes |-> FALSE]}
    \cup {[kind |-> "http", status |-> 404, body |-> HtmlBody, readOk |-> TRUE, decodes |-> FALSE]}
    \cup {[kind |-> "http", status |-> 200, body |-> b, readOk |-> TRUE, decodes |-> (b = PngBody)]
            : b \in PageBodies}
    \cup {[kind |-> "http", status |-> 200, body |-> PngBody, readOk |-> TRUE, decodes |-> FALSE]}
    \cup {[kind |-> "http", status |-> 200, body |-> JpegBody, readOk |-> FALSE, decodes |-> FALSE]}

\* The answers the kunmanga image host gives.
KunAnswers == {r \in PageAnswers : r.body \in {NoBody, JpegBody, HtmlBody}}

\* A detector that knows JFIF files only.
DetectJfifOnly(data) ==
    IF Len(data) >= 12 /\ HasPrefix(data, <<255, 216, 255, 224>>) THEN "jpeg" ELSE ""

\* parser.DetectImageFormat; "" stands for the error return.
DetectImageFormat(data) ==
    IF Len(data) < 12 THEN ""
    ELSE IF HasPrefix(data, <<255, 216, 255>>) THEN "jpeg"
    ELSE IF HasPrefix(data, <<137, 80, 78, 71>>) THEN "png"
    ELSE IF HasPrefix(data, <<71, 73, 70, 56, 55, 97>>) \/ HasPrefix(data, <<71, 73, 70, 56, 57, 97>>)
    THEN "gif"
    ELSE IF HasPrefix(data, <<82, 73, 70, 70>>) /\ HasPrefix(SubSeq(data, 9, Len(data)), <<87, 69, 66, 80>>)
    THEN "webp"
    ELSE ""

\* parser.DownloadAndConvertToJPG up to the write: the bytes to be written
\* to the page file, if any.  asura.downloadChapterImage and
\* ravenscans.downloadAndConvertToJPG repeat these steps.
ConvertToJPG(r) ==
    IF r.kind = "transport" \/ r.status # 200 \/ ~r.readOk
    THEN [save |-> FALSE, bytes |-> NoBody]
    ELSE IF DetectImageFormat(r.body) = ""
    THEN [save |-> FALSE, bytes |-> NoBody]
    ELSE IF DetectImageFormat(r.body) = "jpeg"
    THEN [save |-> TRUE, bytes |-> r.body]
    ELSE IF ~r.decodes
    THEN [save |-> FALSE, bytes |-> NoBody]
    ELSE [save |-> TRUE, bytes |-> EncodedJpeg]

\* filepath.Base on a path that does not end in a slash: what follows the
\* last slash.
Base(path) ==
    LET slashes == {i \in 1..Len(path) : path[i] = Slash} IN
    IF slashes = {} THEN path
    ELSE LET last == CHOOSE i \in slashes : \A j \in slashes : j <= i
         IN SubSeq(path, last + 1, Len(path))

\* The name of the page file of the i-th image (1-based) with URL u.
PageFileName(s, i, u) ==
    IF s = "asura" THEN OrderFileName(i)
    ELSE IF s = "ravenscans" THEN OrderFileName(i - 1)
    ELSE padFileName(TrimSuffix(Base(u), ToLower(Ext(Base(u)))) \o JpgExt)

(***************************************************************************)
(* Scratch directories                                                     *)
(***************************************************************************)
TmpSlash == <<47, 116, 109, 112, 47>>                 \* "/tmp/"
ChapterDl == <<99, 104, 97, 112, 116, 101, 114, 45, 100, 108, 47>>   \* "chapter-dl/"

\* The empty path, which parser.CreateTempDir returns with an error.
NoDir == [base |-> <<>>, uniq |-> 0]

\* os.MkdirTemp: the pattern followed by a string no existing name has.
MkdirTempPath(s, key, n) ==
    IF s = "asura" THEN [base |-> TmpSlash \o key, uniq |-> n]
    ELSE IF s = "stonescape" THEN [base |-> TmpSlash \o TrimSuffix(key, CbzExt), uniq |-> n]
    ELSE [base |-> TmpSlash \o ChapterDash \o key, uniq |-> n]

\* mgeko: filepath.Join("/tmp", strings.TrimSuffix(cbzName, ".cbz"))
MgekoChapterDir(cbzName) == [base |-> TmpSlash \o TrimSuffix(cbzName, CbzExt), uniq |-> 0]

\* kunmanga: filepath.Join(os.TempDir(), "chapter-dl", chapterSlug)
KunChapterTempDir(chapterSlug) == [base |-> TmpSlash \o ChapterDl \o chapterSlug, uniq |-> 0]

\* os.MkdirAll keeps a directory that exists, with what it holds.
MkdirAll(t, path) == IF path \in DOMAIN t THEN t ELSE Put(t, path, EmptyMap)

\* os.RemoveAll: the empty path is accepted and nothing is removed.
RemoveAll(t, paths) == Remove(t, paths \ {NoDir})

(***************************************************************************)
(* The download functions of the key sites: asura.DownloadChapters,        *)
(* stonescape.DownloadChapters, mgeko.DownloadChapters and                 *)
(* ravenscans.DownloadMangaChapters                                        *)
(***************************************************************************)
Running == pc \notin {"done", "fatal", "killed"}

\* The locals of a run before its first statement.
FreshRun ==
    /\ chapterMap = EmptyMap /\ existing = {} /\ queue = <<>> /\ idx = 0
    /\ imgs = <<>> /\ imgIdx = 0 /\ kAttempt = 0
    /\ tempDir = NoDir /\ tempDirList = <<>>
    /\ zFiles = <<>>
    /\ processed = <<>> /\ wanted = EmptyMap /\ archivedOk = {}

\* The names the site's function takes as already downloaded.
ExistingNames(s, dir) ==
    IF s \in {"asura", "stonescape"} THEN GetDownloadedCBZ(dir)
    ELSE FilterCBZFiles(FileList(dir))

\* asura and mgeko delete the existing names from the chapter map;
\* stonescape tests them in its loop; ravenscans only logs them.
ReconciledMap(s, listed, found) ==
    IF s \in {"asura", "mgeko"} THEN Remove(listed, found) ELSE listed

\* The statements before the chapter loop.
Reconcile ==
    /\ pc = "start" /\ site \in KeySites
    /\ existing' = ExistingNames(site, fs)
    /\ chapterMap' = ReconciledMap(site, remote, existing')
    /\ queue' = SortKeys(chapterMap')
    /\ idx' = 1
    /\ pc' = "loop"
    /\ UNCHANGED <<listVars, fs, tmpfs, imageVars, dirVars, zFiles, run, histVars>>
    /\ UNCHANGED <<fetchVars, pureVars>>

\* The chapter list cannot be fetched, or "." cannot be read: log.Fatalf.
StartFails ==
    /\ pc = "start"
    /\ pc' = "fatal"
    /\ UNCHANGED <<listVars, fs, tmpfs, loopVars, imageVars, dirVars, zFiles, run, histVars>>
    /\ UNCHANGED <<fetchVars, pureVars>>

\* The loop variable of the chapter loop, and the next iteration.
chapterName == queue[idx]
Continue == idx' = idx + 1 /\ pc' = "loop"

\* stonescape: `if existing[filename] { continue }`
SkipExisting ==
    /\ pc = "loop" /\ idx <= Len(queue)
    /\ site = "stonescape" /\ chapterName \in existing
    /\ Continue
    /\ UNCHANGED <<listVars, fs, tmpfs, chapterMap, existing, queue, imageVars, dirVars,
                   zFiles, run, histVars>>
    /\ UNCHANGED <<fetchVars, pureVars>>

BeginsChapter ==
    /\ pc = "loop" /\ idx <= Len(queue) /\ site \in KeySites
    /\ ~(site = "stonescape" /\ chapterName \in existing)

\* The image URLs of the chapter are read from chapterMap[chapterName].
\* stonescape waits until an image is visible, so its list is not empty.
ChapterImages ==
    /\ BeginsChapter
    /\ \E list \in (IF site = "stonescape" THEN ImageLists \ {<<>>} ELSE ImageLists) :
        /\ processed' = Append(processed, chapterName)
        /\ IF site = "mgeko" /\ list = <<>>
           THEN Continue /\ UNCHANGED imageVars
           ELSE /\ imgs' = list /\ pc' = "mktemp"
                /\ UNCHANGED <<idx, imgIdx, kAttempt>>
    /\ UNCHANGED <<listVars, fs, tmpfs, chapterMap, existing, queue, dirVars, zFiles,
                   run, startFs, wanted, archivedOk, prevRun>>
    /\ UNCHANGED <<fetchVars, pureVars>>

\* The chapter page cannot be read: asura and stonescape call log.Fatalf,
\* mgeko continues with the next chapter, ravenscans drops the error and
\* goes on without image URLs.
ChapterImagesFail ==
    /\ BeginsChapter
    /\ processed' = Append(processed, chapterName)
    /\ IF site \in {"asura", "stonescape"} THEN pc' = "fatal" /\ UNCHANGED <<idx, imageVars>>
       ELSE IF site = "mgeko" THEN Continue /\ UNCHANGED imageVars
       ELSE imgs' = <<>> /\ pc' = "mktemp" /\ UNCHANGED <<idx, imgIdx, kAttempt>>
    /\ UNCHANGED <<listVars, fs, tmpfs, chapterMap, existing, queue, dirVars, zFiles,
                   run, startFs, wanted, archivedOk, prevRun>>
    /\ UNCHANGED <<fetchVars, pureVars>>

\* The scratch directory is made.
MakeTempDir ==
    /\ pc = "mktemp"
    /\ IF site = "mgeko"
       THEN /\ tempDir' = MgekoChapterDir(chapterName)
            /\ tmpfs' = MkdirAll(tmpfs, tempDir')
            /\ UNCHANGED dirSeq
       ELSE /\ tempDir' = MkdirTempPath(site, chapterName, dirSeq + 1)
            /\ tmpfs' = Put(tmpfs, tempDir', EmptyMap)
            /\ dirSeq' = dirSeq + 1
    /\ IF site \in HandlerSites THEN pc' = "append" /\ UNCHANGED imgIdx
       ELSE pc' = "images" /\ imgIdx' = 1
    /\ UNCHANGED <<listVars, fs, loopVars, imgs, kAttempt, tempDirList, zFiles, run, histVars>>
    /\ UNCHANGED <<fetchVars, pureVars>>

\* The scratch directory cannot be made: asura and stonescape log and go on
\* with the empty path, mgeko and ravenscans continue with the next chapter.
MakeTempDirFails ==
    /\ pc = "mktemp"
    /\ IF site \in HandlerSites
       THEN tempDir' = NoDir /\ pc' = "append" /\ UNCHANGED idx
       ELSE Continue /\ UNCHANGED tempDir
    /\ UNCHANGED <<listVars, fs, tmpfs, chapterMap, existing, queue, imageVars, tempDirList, dirSeq,
                   zFiles, run, histVars>>
    /\ UNCHANGED <<fetchVars, pureVars>>

\* `tempDirList = append(tempDirList, tempDir)`
AppendTempDir ==
    /\ pc = "append"
    /\ tempDirList' = Append(tempDirList, tempDir)
    /\ pc' = "images" /\ imgIdx' = 1
    /\ UNCHANGED <<listVars, fs, tmpfs, loopVars, imgs, kAttempt, tempDir, dirSeq, zFiles,
                   run, histVars>>
    /\ UNCHANGED <<fetchVars, pureVars>>

\* One iteration of the image loop.  The page file is written under
\* filepath.Join(tempDir, name): in the scratch directory if it is there, in
\* the working directory if the path is empty.
DownloadImage ==
    /\ pc = "images" /\ imgIdx <= Len(imgs) /\ site \in KeySites
    /\ \E r \in PageAnswers :
        LET out == ConvertToJPG(r)
            name == PageFileName(site, imgIdx, imgs[imgIdx])
        IN IF out.save /\ tempDir = NoDir /\ ~(name \in DOMAIN fs /\ IsDir(fs[name]))
           THEN fs' = Put(fs, name, PageFile(out.bytes)) /\ UNCHANGED tmpfs
           ELSE IF out.save /\ tempDir \in DOMAIN tmpfs
           THEN tmpfs' = Put(tmpfs, tempDir, Put(tmpfs[tempDir], name, out.bytes)) /\ UNCHANGED fs
           ELSE UNCHANGED <<fs, tmpfs>>
    /\ imgIdx' = imgIdx + 1
    /\ UNCHANGED <<listVars, loopVars, pc, imgs, kAttempt, dirVars, zFiles, run, histVars>>
    /\ UNCHANGED <<fetchVars, pureVars>>

(***************************************************************************)
(* parser.CreateCbzFromDir(tempDir, chapterName), as the key sites call it *)
(***************************************************************************)
\* An entry of an archive.
ZipEntry(name, bytes) == [name |-> name, bytes |-> bytes]

\* os.ReadDir on a scratch path succeeds if the directory is there.
CanReadDir(path) == path # NoDir /\ path \in DOMAIN tmpfs

\* os.Create fails on the name of a directory.
CanCreate(name) == ~(name \in DOMAIN fs /\ IsDir(fs[name]))

\* The directory is read, its file names are sorted and os.Create makes the
\* file at the archive's name: an existing file is truncated.
CbzCreate ==
    /\ pc = "images" /\ imgIdx > Len(imgs) /\ site \in KeySites
    /\ CanReadDir(tempDir) /\ CanCreate(chapterName)
    /\ zFiles' = SortStrings(DOMAIN tmpfs[tempDir])
    /\ wanted' = Put(wanted, chapterName, zFiles')
    /\ fs' = Put(fs, chapterName, Zip(<<>>, FALSE))
    /\ pc' = "zip"
    /\ UNCHANGED <<listVars, tmpfs, loopVars, imageVars, dirVars, run,
                   startFs, processed, archivedOk, prevRun>>
    /\ UNCHANGED <<fetchVars, pureVars>>

\* os.ReadDir or os.Create returns an error: CreateCbzFromDir returns it
\* before anything is written.
CbzCreateFails ==
    /\ pc = "images" /\ imgIdx > Len(imgs) /\ site \in KeySites
    /\ pc' = "after"
    /\ UNCHANGED <<listVars, fs, tmpfs, loopVars, imageVars, dirVars, zFiles, run, histVars>>
    /\ UNCHANGED <<fetchVars, pureVars>>

\* One file of the list is copied into the archive.
CbzAdd ==
    /\ pc = "zip" /\ zFiles # <<>>
    /\ tempDir \in DOMAIN tmpfs /\ Head(zFiles) \in DOMAIN tmpfs[tempDir]
    /\ fs' = Put(fs, chapterName,
                 Zip(Append(fs[chapterName].entries,
                            ZipEntry(Head(zFiles), tmpfs[tempDir][Head(zFiles)])), FALSE))
    /\ zFiles' = Tail(zFiles)
    /\ UNCHANGED <<listVars, tmpfs, loopVars, pc, imageVars, dirVars, run, histVars>>
    /\ UNCHANGED <<fetchVars, pureVars>>

\* Opening or copying a file fails: CreateCbzFromDir returns the error; the
\* deferred zipWriter.Close writes the central directory of what is in.
CbzAddFails ==
    /\ pc = "zip" /\ zFiles # <<>>
    /\ fs' = Put(fs, chapterName, Zip(fs[chapterName].entries, TRUE))
    /\ zFiles' = <<>>
    /\ pc' = "after"
    /\ UNCHANGED <<listVars, tmpfs, loopVars, imageVars, dirVars, run, histVars>>
    /\ UNCHANGED <<fetchVars, pureVars>>

\* Every file is in: CreateCbzFromDir returns nil and the deferred
\* zipWriter.Close writes the central directory.
CbzClose ==
    /\ pc = "zip" /\ zFiles = <<>>
    /\ fs' = Put(fs, chapterName, Zip(fs[chapterName].entries, TRUE))
    /\ archivedOk' = archivedOk \cup {idx}
    /\ pc' = "after"
    /\ UNCHANGED <<listVars, tmpfs, loopVars, imageVars, dirVars, zFiles, run,
                   startFs, processed, wanted, prevRun>>
    /\ UNCHANGED <<fetchVars, pureVars>>

\* The rest of the loop body: mgeko and ravenscans remove the scratch
\* directory, asura and stonescape leave it.
AfterArchive ==
    /\ pc = "after"
    /\ tmpfs' = IF site \in HandlerSites THEN tmpfs ELSE RemoveAll(tmpfs, {tempDir})
    /\ Continue
    /\ UNCHANGED <<listVars, fs, chapterMap, existing, queue, imageVars, dirVars, zFiles,
                   run, histVars>>
    /\ UNCHANGED <<fetchVars, pureVars>>

\* The chapter loop is over: the function returns and the process ends.
Finish ==
    /\ pc = "loop" /\ idx > Len(queue)
    /\ pc' = "done"
    /\ UNCHANGED <<listVars, fs, tmpfs, loopVars, imageVars, dirVars, zFiles, run, histVars>>
    /\ UNCHANGED <<fetchVars, pureVars>>

(***************************************************************************)
(* Signals, and the next run                                               *)
(***************************************************************************)
\* The goroutine of parser.CleanupTempDirs receives SIGINT or SIGTERM,
\* removes the directories `*tempDirs` holds and calls os.Exit(1).
Interrupt ==
    /\ Running /\ site \in HandlerSites
    /\ tmpfs' = RemoveAll(tmpfs, Range(tempDirList))
    /\ pc' = "killed"
    /\ UNCHANGED <<listVars, fs, loopVars, imageVars, dirVars, zFiles, run, histVars>>
    /\ UNCHANGED <<fetchVars, pureVars>>

\* Without a handler the signal ends the process where it stands.
Kill ==
    /\ Running /\ site \notin HandlerSites
    /\ pc' = "killed"
    /\ UNCHANGED <<listVars, fs, tmpfs, loopVars, imageVars, dirVars, zFiles, run, histVars>>
    /\ UNCHANGED <<fetchVars, pureVars>>

\* What a later run finds.  No statement reads a file of the destination
\* directory, so the files a run leaves are from then on files of an
\* earlier run; os.MkdirTemp
\* never returns the name of a directory that is there, so the scratch
\* directories with generated names are out of the later run's reach.
LeftBehind(dir) ==
    [n \in DOMAIN dir |-> IF dir[n].kind = "zip" THEN OldArchive
                          ELSE IF dir[n].kind = "page" THEN OldPage
                          ELSE dir[n]]
StaleDirs(t) == [d \in {x \in DOMAIN t : x.uniq = 0} |-> t[d]]

\* The command is run again on the directories the last run left.
Rerun ==
    /\ ~Running /\ run < MaxRuns
    /\ run' = run + 1
    /\ fs' = LeftBehind(fs)
    /\ tmpfs' = StaleDirs(tmpfs)
    /\ dirSeq' = 0
    /\ startFs' = fs'
    /\ prevRun' = [ended |-> pc, queued |-> Len(queue), archived |-> Cardinality(archivedOk)]
    /\ chapterMap' = EmptyMap /\ existing' = {} /\ queue' = <<>> /\ idx' = 0
    /\ pc' = "start"
    /\ imgs' = <<>> /\ imgIdx' = 0 /\ kAttempt' = 0
    /\ tempDir' = NoDir /\ tempDirList' = <<>>
    /\ zFiles' = <<>>
    /\ processed' = <<>> /\ wanted' = EmptyMap /\ archivedOk' = {}
    /\ UNCHANGED listVars
    /\ UNCHANGED <<fetchVars, pureVars>>

(***************************************************************************)
(* kunmanga: the case of main and kunmanga.DownloadKunMangaChapters        *)
(***************************************************************************)
\* The flags -start and -end, left at their defaults.
startFlag == 0
endFlag == 0

\* Attempts at one image.
kunAttempts == 3

\* `if *start != 0 && *end != 0 { if chNum < *start || chNum > *end {continue} }`
OutsideRange(chNum) == startFlag # 0 /\ endFlag # 0 /\ (chNum < startFlag \/ chNum > endFlag)

Chapter(slug) == [Slug |-> slug, Number |-> ParseChapterNumber(slug)]

\* The orders sort.Slice can leave a list in: ascending by Number, chapters
\* of equal Number in any order.
SortedByNumber(S) ==
    {q \in [1..Cardinality(S) -> S] :
        /\ \A i, j \in 1..Cardinality(S) : i < j => (q[i] # q[j] /\ q[i].Number <= q[j].Number)}

\* The filter loop of main and the sort.
KunFilter ==
    /\ pc = "start" /\ site = "kunmanga"
    /\ LET kept == {slug \in Range(remote) :
                        /\ ~OutsideRange(ParseChapterNumber(slug))
                        /\ ~CBZExists(fs, ParseChapterNumber(slug))}
       IN /\ existing' = {slug \in Range(remote) : CBZExists(fs, ParseChapterNumber(slug))}
          /\ queue' \in SortedByNumber({Chapter(slug) : slug \in kept})
    /\ idx' = 1
    /\ pc' = "loop"
    /\ UNCHANGED <<listVars, fs, tmpfs, chapterMap, imageVars, dirVars, zFiles, run, histVars>>
    /\ UNCHANGED <<fetchVars, pureVars>>

\* The archive name of the chapter being downloaded.
cbzName == CbzName(queue[idx].Number)

\* DownloadKunMangaChapters begins: os.MkdirAll(chapterTempDir).
KunMkdir ==
    /\ pc = "loop" /\ idx <= Len(queue) /\ site = "kunmanga"
    /\ processed' = Append(processed, queue[idx].Slug)
    /\ tempDir' = KunChapterTempDir(queue[idx].Slug)
    /\ tmpfs' = MkdirAll(tmpfs, tempDir')
    /\ pc' = "kvisit"
    /\ UNCHANGED <<listVars, fs, loopVars, imageVars, tempDirList, dirSeq, zFiles, run,
                   startFs, wanted, archivedOk, prevRun>>
    /\ UNCHANGED <<fetchVars, pureVars>>

\* os.MkdirAll fails: the function returns the error, main logs it.
KunMkdirFails ==
    /\ pc = "loop" /\ idx <= Len(queue) /\ site = "kunmanga"
    /\ processed' = Append(processed, queue[idx].Slug)
    /\ Continue
    /\ UNCHANGED <<listVars, fs, tmpfs, chapterMap, existing, queue, imageVars, dirVars, zFiles,
                   run, startFs, wanted, archivedOk, prevRun>>
    /\ UNCHANGED <<fetchVars, pureVars>>

\* The chapter page is visited and its image URLs collected.
KunVisit ==
    /\ pc = "kvisit"
    /\ \E list \in ImageLists \ {<<>>} :
        imgs' = list /\ imgIdx' = 1 /\ kAttempt' = 1
    /\ pc' = "kimages"
    /\ UNCHANGED <<listVars, fs, tmpfs, loopVars, dirVars, zFiles, run, histVars>>
    /\ UNCHANGED <<fetchVars, pureVars>>

\* The visit fails or finds no image: the function returns an error.
KunVisitFails ==
    /\ pc = "kvisit"
    /\ Continue
    /\ UNCHANGED <<listVars, fs, tmpfs, chapterMap, existing, queue, imageVars, dirVars, zFiles,
                   run, histVars>>
    /\ UNCHANGED <<fetchVars, pureVars>>

\* kunmanga.downloadKunMangaImage for the answer r: whether it returns nil,
\* and what it leaves in the output file (write = FALSE: the file is not
\* touched).  A body that fails to be read is copied in part.
downloadKunMangaImage(r) ==
    IF r.kind = "transport" \/ r.status # 200
    THEN [ok |-> FALSE, write |-> FALSE, bytes |-> NoBody]
    ELSE IF ~r.readOk
    THEN [ok |-> FALSE, write |-> TRUE, bytes |-> SubSeq(r.body, 1, Len(r.body) \div 2)]
    ELSE [ok |-> TRUE, write |-> TRUE, bytes |-> r.body]

\* fmt.Sprintf("%03d%s", i+1, filepath.Ext(imgURL))
KunOutputName(i, imgURL) == PadZero(Digits(i), 3) \o Ext(imgURL)

\* One attempt at the image at hand.  After the last failed attempt the
\* function returns the error and leaves the scratch directory.
KunImageAttempt ==
    /\ pc = "kimages" /\ imgIdx <= Len(imgs)
    /\ \E r \in KunAnswers :
        LET out == downloadKunMangaImage(r)
            name == KunOutputName(imgIdx, imgs[imgIdx])
        IN /\ tmpfs' = IF out.write
                       THEN Put(tmpfs, tempDir, Put(tmpfs[tempDir], name, out.bytes))
                       ELSE tmpfs
           /\ IF out.ok
              THEN imgIdx' = imgIdx + 1 /\ kAttempt' = 1 /\ UNCHANGED <<idx, pc>>
              ELSE IF kAttempt < kunAttempts
              THEN kAttempt' = kAttempt + 1 /\ UNCHANGED <<idx, pc, imgIdx>>
              ELSE Continue /\ UNCHANGED <<imgIdx, kAttempt>>
    /\ UNCHANGED <<listVars, fs, chapterMap, existing, queue, imgs, dirVars, zFiles, run,
                   histVars>>
    /\ UNCHANGED <<fetchVars, pureVars>>

\* kunmanga.createCBZFromDir: os.Create at the archive's name, then
\* os.ReadDir, which lists the scratch directory sorted by file name.
KunCbzCreate ==
    /\ pc = "kimages" /\ imgIdx > Len(imgs)
    /\ CanCreate(cbzName)
    /\ fs' = Put(fs, cbzName, Zip(<<>>, FALSE))
    /\ zFiles' = SortStrings(DOMAIN tmpfs[tempDir])
    /\ wanted' = Put(wanted, cbzName, zFiles')
    /\ pc' = "kzip"
    /\ UNCHANGED <<listVars, tmpfs, loopVars, imageVars, dirVars, run,
                   startFs, processed, archivedOk, prevRun>>
    /\ UNCHANGED <<fetchVars, pureVars>>

\* os.Create fails: DownloadKunMangaChapters returns the error at once.
KunCbzCreateFails ==
    /\ pc = "kimages" /\ imgIdx > Len(imgs)
    /\ Continue
    /\ UNCHANGED <<listVars, fs, tmpfs, chapterMap, existing, queue, imageVars, dirVars, zFiles,
                   run, histVars>>
    /\ UNCHANGED <<fetchVars, pureVars>>

KunCbzAdd ==
    /\ pc = "kzip" /\ zFiles # <<>>
    /\ fs' = Put(fs, cbzName,
                 Zip(Append(fs[cbzName].entries,
                            ZipEntry(Head(zFiles), tmpfs[tempDir][Head(zFiles)])), FALSE))
    /\ zFiles' = Tail(zFiles)
    /\ UNCHANGED <<listVars, tmpfs, loopVars, pc, imageVars, dirVars, run, histVars>>
    /\ UNCHANGED <<fetchVars, pureVars>>

\* A file cannot be added: the error is returned, the deferred Close calls
\* run, and the scratch directory stays.
KunCbzAddFails ==
    /\ pc = "kzip" /\ zFiles # <<>>
    /\ fs' = Put(fs, cbzName, Zip(fs[cbzName].entries, TRUE))
    /\ zFiles' = <<>>
    /\ Continue
    /\ UNCHANGED <<listVars, tmpfs, chapterMap, existing, queue, imageVars, dirVars, run,
                   histVars>>
    /\ UNCHANGED <<fetchVars, pureVars>>

\* createCBZFromDir returns nil; the scratch directory is removed and
\* DownloadKunMangaChapters returns nil.
KunCbzClose ==
    /\ pc = "kzip" /\ zFiles = <<>>
    /\ fs' = Put(fs, cbzName, Zip(fs[cbzName].entries, TRUE))
    /\ pc' = "kafter"
    /\ UNCHANGED <<listVars, tmpfs, loopVars, imageVars, dirVars, zFiles, run, histVars>>
    /\ UNCHANGED <<fetchVars, pureVars>>

KunRemoveTemp ==
    /\ pc = "kafter"
    /\ tmpfs' = RemoveAll(tmpfs, {tempDir})
    /\ archivedOk' = archivedOk \cup {idx}
    /\ Continue
    /\ UNCHANGED <<listVars, fs, chapterMap, existing, queue, imageVars, dirVars, zFiles,
                   run, startFs, processed, wanted, prevRun>>
    /\ UNCHANGED <<fetchVars, pureVars>>

(***************************************************************************)
(* Chapter keys made from the tokens of a chapter list                     *)
(***************************************************************************)
Minus == 45
Underscore == 95
Plus == 43
Zero == 48
ChZero == <<99, 104, 48, 48, 48, 46, 99, 98, 122>>    \* "ch000.cbz"
ChapterWord == <<99, 104, 97, 112, 116, 101, 114>>    \* "chapter"

\* strings.ReplaceAll for one-byte strings.
ReplaceAll(s, old, new) == [i \in 1..Len(s) |-> IF s[i] = old THEN new ELSE s[i]]

\* s holds w at position p.
HasAt(s, p, w) == p >= 1 /\ p + Len(w) - 1 <= Len(s) /\ SubSeq(s, p, p + Len(w) - 1) = w

\* The digits of a fraction without its trailing zeros.
RECURSIVE StripZeros(_)
StripZeros(f) ==
    IF f # <<>> /\ f[Len(f)] = Zero THEN StripZeros(SubSeq(f, 1, Len(f) - 1)) ELSE f

\* strconv.ParseFloat(s, 64) on strings of signs, digits, dots and letters
\* other than exponents, infinities and NaNs: an optional sign, digits with
\* at most one dot and at least one digit; anything else is an error.  The
\* value is kept exactly, as the whole part and the digits of the fraction
\* (none for a whole number); the inputs have at most 15 digits.
ParseFloat(s) ==
    LET body == IF s # <<>> /\ s[1] \in {Plus, Minus} THEN Tail(s) ELSE s
        dots == {i \in 1..Len(body) : body[i] = Dot}
        wellFormed ==
            /\ \A i \in 1..Len(body) : IsDigit(body[i]) \/ body[i] = Dot
            /\ Cardinality(dots) <= 1
            /\ \E i \in 1..Len(body) : IsDigit(body[i])
        point == IF dots = {} THEN Len(body) + 1 ELSE CHOOSE i \in dots : TRUE
    IN  IF ~wellFormed THEN [err |-> TRUE, int |-> 0, frac |-> <<>>]
        ELSE [err |-> FALSE,
              int |-> DigitsValue(SubSeq(body, 1, point - 1)),
              frac |-> StripZeros(SubSeq(body, point + 1, Len(body)))]

\* The first three digits of a fraction as a number of thousandths.
Thousandths(frac) ==
    DigitsValue([i \in 1..3 |-> IF i <= Len(frac) THEN frac[i] ELSE Zero])

\* fmt.Sprintf("%03.2f", x) for x >= 0 with at most three fraction digits,
\* the third not 5: two decimals, rounded to nearest, then zero padding up
\* to the width 3, which the five characters at least of "d.dd" exceed.
FormatFloat2(x) ==
    LET t == Thousandths(x.frac)
        h == (t \div 10) + (IF t % 10 >= 5 THEN 1 ELSE 0)
        whole == IF h = 100 THEN x.int + 1 ELSE x.int
        cents == IF h = 100 THEN 0 ELSE h
    IN PadZero(Digits(whole) \o <<Dot>> \o PadZero(Digits(cents), 2), 3)

\* parser.CreateFilename
CreateFilename(inputChapterNumber) ==
    LET normalized == ReplaceAll(ReplaceAll(inputChapterNumber, Minus, Dot), Underscore, Dot)
        inputChapter == ParseFloat(normalized)
        padded == PadZero(Digits(inputChapter.int), 3)
    IN  IF inputChapter.err THEN ChZero
        ELSE IF inputChapter.frac = <<>> THEN ChPrefix \o padded \o CbzExt
        ELSE ChPrefix
                \o TrimSuffix(TrimSuffix(FormatFloat2(inputChapter), <<Zero>>), <<Dot>>)
                \o CbzExt

\* The longest prefix of s made of bytes of the class C.
RECURSIVE LeadingRun(_, _)
LeadingRun(s, C) ==
    IF s # <<>> /\ Head(s) \in C THEN <<Head(s)>> \o LeadingRun(Tail(s), C) ELSE <<>>

DigitBytes == 48..57

\* strings.SplitN(s, ".", 2)
SplitN2(s) ==
    LET dots == {i \in 1..Len(s) : s[i] = Dot} IN
    IF dots = {} THEN <<s>>
    ELSE LET first == CHOOSE i \in dots : \A j \in dots : i <= j
         IN <<SubSeq(s, 1, first - 1), SubSeq(s, first + 1, Len(s))>>

\* strconv.Atoi fails on a string that is not a run of digits.
AtoiFails(s) == s = <<>> \/ \E i \in 1..Len(s) : ~IsDigit(s[i])

NoName == [name |-> <<>>, err |-> TRUE]
Named(n) == [name |-> n, err |-> FALSE]

\* manhuaus.ExtractChapterNumber: the leftmost match of chapter-([\d.]+).
ExtractChapterNumber(url) ==
    LET starts == {p \in 1..Len(url) :
                        /\ HasAt(url, p, ChapterDash)
                        /\ p + Len(ChapterDash) <= Len(url)
                        /\ url[p + Len(ChapterDash)] \in DigitBytes \cup {Dot}}
    IN  IF starts = {} THEN NoName
        ELSE LET p == CHOOSE q \in starts : \A r \in starts : q <= r
                 raw == LeadingRun(SubSeq(url, p + Len(ChapterDash), Len(url)),
                                   DigitBytes \cup {Dot})
                 parts == SplitN2(raw)
             IN IF Len(parts) = 2
                THEN IF AtoiFails(parts[1]) THEN NoName
                     ELSE Named(ChPrefix \o PadZero(Digits(Atoi(parts[1])), 3) \o <<Dot>>
                                    \o parts[2] \o CbzExt)
                ELSE Named(ChPrefix \o PadZero(Digits(Atoi(raw)), 3) \o CbzExt)

\* iluim.extractChapterNumber: the leftmost match of
\* chapter[-_/](\d+(?:[.-]\d+)?); "" stands for no chapter number.
extractChapterNumber(href) ==
    LET w == Len(ChapterWord)
        starts == {p \in 1..Len(href) :
                        /\ HasAt(href, p, ChapterWord)
                        /\ p + w + 1 <= Len(href)
                        /\ href[p + w] \in {Minus, Underscore, 47}
                        /\ IsDigit(href[p + w + 1])}
    IN  IF starts = {} THEN NoName
        ELSE LET p == CHOOSE q \in starts : \A r \in starts : q <= r
                 rest == SubSeq(href, p + w + 1, Len(href))
                 whole == LeadingRun(rest, DigitBytes)
                 after == SubSeq(rest, Len(whole) + 1, Len(rest))
                 tail == IF after # <<>> /\ after[1] \in {Dot, Minus}
                         THEN LeadingRun(Tail(after), DigitBytes) ELSE <<>>
                 padded == PadZero(Digits(Atoi(whole)), 3)
             IN IF tail # <<>> THEN Named(ChPrefix \o padded \o <<Dot>> \o tail)
                ELSE Named(ChPrefix \o padded)

\* The tokens a chapter list can carry: the text, and the number it was
\* written from (ok: there is one).
WholeToken(n) == [text |-> Digits(n), ok |-> TRUE, int |-> n, frac |-> <<>>]
FracToken(n, sep, f) ==
    [text |-> Digits(n) \o <<sep>> \o f, ok |-> TRUE, int |-> n, frac |-> f]
JunkToken(t) == [text |-> t, ok |-> FALSE, int |-> 0, frac |-> <<>>]

MaxNumber == 1001
Separators == {Dot, Minus, Underscore}
Fractions == {<<53>>, <<50, 53>>, <<48, 53>>, <<49>>, <<50, 53, 49>>}   \* 5 25 05 1 251
JunkTexts == {<<>>, <<97, 98, 99>>, <<49, 45, 50, 45, 51>>, <<118, 50>>}  \* "" abc 1-2-3 v2
ListedTokens ==
    {WholeToken(n) : n \in {0, 5, 6, 10, 43, 44, 999, 1000}}
        \cup {FracToken(n, sep, f) : n \in {5, 43}, sep \in Separators, f \in Fractions}
        \cup {JunkToken(t) : t \in JunkTexts}
TokenLists ==
    {<<a, b>> : a \in ListedTokens, b \in ListedTokens}
        \cup {<<WholeToken(n)>> : n \in 0..MaxNumber}

\* No naming function is applied, no directory archived, no page saved.
NamesIdle == rawNum = <<>> /\ nPc = "named" /\ filenames = <<>> /\ urlMap = EmptyMap
CbzIdle ==
    /\ sourceDir = EmptyMap /\ dirEntries = <<>> /\ fileList = <<>> /\ zipOut = <<>>
    /\ cPc = "nil"
MgekoIdle == mgUrl = [segs |-> <<>>, text |-> <<>>] /\ mgName = <<>>
BackoffIdle ==
    /\ bFunc = "FetchWithBackoff" /\ bPc = "idle" /\ backoff = 0 /\ retriesAtMax = 0
    /\ bAttempt = 0 /\ delays = <<>> /\ bLast = [kind |-> "none"]
    /\ bResult = [body |-> <<>>, err |-> "none"] /\ bCalls = 0 /\ prevPeak = 0
MoreIdle == MgekoIdle /\ BackoffIdle
PagesIdle == imageURLs = <<>> /\ saved = <<>> /\ imgBytes = <<>> /\ targetDir = EmptyMap
PureIdle == NamesIdle /\ CbzIdle /\ PagesIdle /\ MoreIdle

(***************************************************************************)
(* Specifications                                                          *)
(***************************************************************************)
NoRun == [ended |-> "none", queued |-> 0, archived |-> 0]

\* No download command runs.
PipeIdle ==
    /\ site = "asura" /\ remote = EmptyMap /\ fs = EmptyMap /\ tmpfs = EmptyMap
    /\ FreshRun
    /\ pc = "done" /\ dirSeq = 0 /\ run = MaxRuns
    /\ startFs = EmptyMap /\ prevRun = NoRun

InitFetch == FetchIdle /\ PipeIdle /\ PureIdle
NextFetch == FetchCall \/ FetchAttempt \/ FetchExhausted \/ FetchReturn
SpecFetch == InitFetch /\ [][NextFetch]_vars

\* A download command is started in a destination directory.
InitSites(S) ==
    /\ FetchIdle /\ PureIdle
    /\ site \in S
    /\ remote \in (IF site = "kunmanga" THEN SlugLists ELSE {RemoteMap})
    /\ fs \in LocalDirs(site)
    /\ tmpfs = EmptyMap
    /\ FreshRun
    /\ pc = "start" /\ dirSeq = 0 /\ run = 1
    /\ startFs = fs /\ prevRun = NoRun

\* asura and stonescape: the sites that install the signal goroutine.
InitHandled == InitSites(HandlerSites)
NextHandled ==
    \/ Reconcile \/ StartFails \/ SkipExisting \/ ChapterImages \/ ChapterImagesFail
    \/ MakeTempDir \/ MakeTempDirFails \/ AppendTempDir \/ DownloadImage
    \/ CbzCreate \/ CbzCreateFails \/ CbzAdd \/ CbzAddFails \/ CbzClose \/ AfterArchive
    \/ Finish \/ Interrupt \/ Rerun
SpecHandled == InitHandled /\ [][NextHandled]_vars

\* mgeko, ravenscans and kunmanga: the sites without it.
InitPlain == InitSites(Sites \ HandlerSites)
NextPlain ==
    \/ Reconcile \/ StartFails \/ ChapterImages \/ ChapterImagesFail
    \/ MakeTempDir \/ MakeTempDirFails \/ DownloadImage
    \/ CbzCreate \/ CbzCreateFails \/ CbzAdd \/ CbzAddFails \/ CbzClose \/ AfterArchive
    \/ KunFilter \/ KunMkdir \/ KunMkdirFails \/ KunVisit \/ KunVisitFails
    \/ KunImageAttempt \/ KunCbzCreate \/ KunCbzCreateFails \/ KunCbzAdd \/ KunCbzAddFails
    \/ KunCbzClose \/ KunRemoveTemp
    \/ Finish \/ Kill \/ Rerun
SpecPlain == InitPlain /\ [][NextPlain]_vars

\* ravenscans.chapterUrls, manhuaus and iluim: each element of the chapter
\* list goes through the site's naming function.
ApplyCreateFilename ==
    /\ nPc = "raw"
    /\ filenames' = [i \in DOMAIN rawNum |-> Named(CreateFilename(rawNum[i].text))]
    /\ nPc' = "parser"
    /\ UNCHANGED <<rawNum, urlMap>>
    /\ UNCHANGED <<fetchVars, pipeVars, cbzVars, pageVars, moreVars>>

ApplyExtractChapterNumber ==
    /\ nPc = "raw"
    /\ filenames' = [i \in DOMAIN rawNum |-> ExtractChapterNumber(ChapterDash \o rawNum[i].text)]
    /\ nPc' = "manhuaus"
    /\ UNCHANGED <<rawNum, urlMap>>
    /\ UNCHANGED <<fetchVars, pipeVars, cbzVars, pageVars, moreVars>>

ApplyIluim ==
    /\ nPc = "raw"
    /\ filenames' = [i \in DOMAIN rawNum |-> extractChapterNumber(ChapterDash \o rawNum[i].text)]
    /\ nPc' = "iluim"
    /\ UNCHANGED <<rawNum, urlMap>>
    /\ UNCHANGED <<fetchVars, pipeVars, cbzVars, pageVars, moreVars>>

\* ravenscans.chapterUrls, the OnHTML callback on the next list element:
\* the element's URL is stored under the file name of its data-num.
chapterUrlsOnHTML ==
    /\ nPc \in {"raw", "ravenscans"}
    /\ Len(filenames) < Len(rawNum)
    /\ LET i == Len(filenames) + 1
           filename == CreateFilename(rawNum[i].text)
       IN /\ urlMap' = Put(urlMap, filename, i)
          /\ filenames' = Append(filenames, Named(filename))
    /\ nPc' = "ravenscans"
    /\ UNCHANGED rawNum
    /\ UNCHANGED <<fetchVars, pipeVars, cbzVars, pageVars, moreVars>>

InitNames ==
    /\ FetchIdle /\ PipeIdle /\ CbzIdle /\ PagesIdle /\ MoreIdle
    /\ rawNum \in TokenLists
    /\ nPc = "raw" /\ filenames = <<>> /\ urlMap = EmptyMap
NextNames ==
    ApplyCreateFilename \/ ApplyExtractChapterNumber \/ ApplyIluim \/ chapterUrlsOnHTML
SpecNames == InitNames /\ [][NextNames]_vars

(***************************************************************************)
(* parser.CreateCbzFromDir(sourceDir, zipName) on a directory of pages     *)
(***************************************************************************)
MaxPages == 3

\* The orders in which a listing can return the names of S.
Perms(S) ==
    {s \in [1..Cardinality(S) -> S] :
        \A i, j \in 1..Cardinality(S) : i # j => s[i] # s[j]}

\* The directory holds page files named as the scrapers name them, and
\* sub-directories; a file's content is told apart by its name.
PageNames == {OrderFileName(i) : i \in 1..MaxPages}
SourceEntry(name, dir) ==
    [dir |-> dir, bytes |-> IF dir THEN <<>> ELSE EncodedJpeg \o name]
SourceDirs ==
    UNION {{[n \in N |-> SourceEntry(n, isDir[n])] : isDir \in [N -> BOOLEAN]}
                : N \in SUBSET PageNames}

\* The loop over the entries: the names of those that are no directory.
RegularFiles(dir, entries) == SelectSeq(entries, LAMBDA n : ~dir[n].dir)

\* The files in the order of the listing.
ListingOrder(fl) == fl

\* sort.Strings(files)
SortedFiles(fl) == SortStrings(Range(fl))

\* os.ReadDir succeeds, the files are collected and sorted, os.Create makes
\* the output file.
CreateCbzList ==
    /\ cPc = "call"
    /\ fileList' = SortedFiles(RegularFiles(sourceDir, dirEntries))
    /\ zipOut' = <<Zip(<<>>, FALSE)>>
    /\ cPc' = "adding"
    /\ UNCHANGED <<sourceDir, dirEntries>>
    /\ UNCHANGED <<fetchVars, pipeVars, nameVars, pageVars, moreVars>>

\* os.ReadDir or os.Create fails: the error is returned, nothing is written.
CreateCbzListFails ==
    /\ cPc = "call"
    /\ cPc' = "err"
    /\ UNCHANGED <<sourceDir, dirEntries, fileList, zipOut>>
    /\ UNCHANGED <<fetchVars, pipeVars, nameVars, pageVars, moreVars>>

\* The next file of the list is copied into the archive.
CreateCbzAdd ==
    /\ cPc = "adding" /\ fileList # <<>>
    /\ zipOut' = <<Zip(Append(zipOut[1].entries,
                              ZipEntry(Head(fileList), sourceDir[Head(fileList)].bytes)),
                       FALSE)>>
    /\ fileList' = Tail(fileList)
    /\ UNCHANGED <<sourceDir, dirEntries, cPc>>
    /\ UNCHANGED <<fetchVars, pipeVars, nameVars, pageVars, moreVars>>

\* The file cannot be opened or copied: the error is returned and the
\* deferred zipWriter.Close ends the archive as it is.
CreateCbzAddFails ==
    /\ cPc = "adding" /\ fileList # <<>>
    /\ zipOut' = <<Zip(zipOut[1].entries, TRUE)>>
    /\ cPc' = "err"
    /\ UNCHANGED <<sourceDir, dirEntries, fileList>>
    /\ UNCHANGED <<fetchVars, pipeVars, nameVars, pageVars, moreVars>>

\* Every file is in: nil is returned and the deferred Close ends the archive.
CreateCbzReturn ==
    /\ cPc = "adding" /\ fileList = <<>>
    /\ zipOut' = <<Zip(zipOut[1].entries, TRUE)>>
    /\ cPc' = "nil"
    /\ UNCHANGED <<sourceDir, dirEntries, fileList>>
    /\ UNCHANGED <<fetchVars, pipeVars, nameVars, pageVars, moreVars>>

InitCbz ==
    /\ FetchIdle /\ PipeIdle /\ NamesIdle /\ PagesIdle /\ MoreIdle
    /\ sourceDir \in SourceDirs
    /\ dirEntries \in Perms(DOMAIN sourceDir)
    /\ fileList = <<>> /\ zipOut = <<>> /\ cPc = "call"
NextCbz ==
    CreateCbzList \/ CreateCbzListFails \/ CreateCbzAdd \/ CreateCbzAddFails \/ CreateCbzReturn
SpecCbz == InitCbz /\ [][NextCbz]_vars

(***************************************************************************)
(* parser.DownloadAndConvertToJPG on the image URLs of a chapter           *)
(***************************************************************************)
MaxPageList == 3
PagePath == <<112, 47>>                               \* "p/"

\* Base names image hosts use: 1.jpg 2.jpg 10.png a.jpg b.webp
UrlNames ==
    {<<49, 46, 106, 112, 103>>, <<50, 46, 106, 112, 103>>, <<49, 48, 46, 112, 110, 103>>,
     <<97, 46, 106, 112, 103>>, <<98, 46, 119, 101, 98, 112>>}
ImageUrlLists ==
    UNION {{s \in [1..n -> {PagePath \o u : u \in UrlNames}] :
                \A i, j \in 1..n : i # j => s[i] # s[j]} : n \in 1..MaxPageList}

\* Answers whose body begins with the JPEG signature FF D8 FF and goes on
\* with bytes that are no JPEG data: markup, a PNG header, zeros.
SignedTails ==
    {<<60, 104, 116, 109, 108, 62, 60, 47, 104, 62>>,
     <<137, 80, 78, 71, 13, 10, 26, 10, 0>>,
     <<0, 0, 0, 0, 0, 0, 0, 0, 0>>}
SignedAnswers ==
    {[kind |-> "http", status |-> 200, body |-> <<255, 216, 255>> \o t, readOk |-> TRUE,
      decodes |-> FALSE] : t \in SignedTails}

\* stonescape, cfotz and mgeko: the next image URL of the chapter goes
\* through parser.DownloadAndConvertToJPG; its error is dropped or logged.
DownloadAndConvertToJPG ==
    /\ Len(saved) < Len(imageURLs)
    /\ \E r \in PageAnswers \cup SignedAnswers :
        LET i == Len(saved) + 1
            out == ConvertToJPG(r)
            padedFileName == PageFileName("stonescape", i, imageURLs[i])
        IN /\ imgBytes' = Append(imgBytes, IF r.kind = "http" /\ r.status = 200 /\ r.readOk
                                           THEN r.body ELSE NoBody)
           /\ IF out.save
              THEN /\ targetDir' = Put(targetDir, padedFileName, [url |-> i, bytes |-> out.bytes])
                   /\ saved' = Append(saved, Named(padedFileName))
              ELSE /\ saved' = Append(saved, NoName)
                   /\ UNCHANGED targetDir
    /\ UNCHANGED imageURLs
    /\ UNCHANGED <<fetchVars, pipeVars, nameVars, cbzVars, moreVars>>

InitPages ==
    /\ FetchIdle /\ PipeIdle /\ NamesIdle /\ CbzIdle /\ MoreIdle
    /\ imageURLs \in ImageUrlLists
    /\ saved = <<>> /\ imgBytes = <<>> /\ targetDir = EmptyMap
NextPages == DownloadAndConvertToJPG
SpecPages == InitPages /\ [][NextPages]_vars

(***************************************************************************)
(* parser.MgekoUrlToName                                                   *)
(***************************************************************************)
MaxSegments == 3
MangaWord == <<109, 97, 110, 103, 97>>                \* "manga"

\* strings.Split(s, "/")
RECURSIVE Split(_)
Split(s) ==
    LET slashes == {i \in 1..Len(s) : s[i] = Slash} IN
    IF slashes = {} THEN <<s>>
    ELSE LET first == CHOOSE i \in slashes : \A j \in slashes : i <= j
         IN <<SubSeq(s, 1, first - 1)>> \o Split(SubSeq(s, first + 1, Len(s)))

\* The segments written one after the other with "/" between them.
RECURSIVE JoinSlash(_)
JoinSlash(segs) ==
    IF Len(segs) = 1 THEN segs[1] ELSE segs[1] \o <<Slash>> \o JoinSlash(Tail(segs))

\* The segment after the last "manga" that has one.
MgekoAfterLastManga(url) ==
    LET parts == Split(url)
        hits == {i \in 1..Len(parts) : parts[i] = MangaWord /\ i + 1 <= Len(parts)}
    IN IF hits = {} THEN <<>>
       ELSE parts[(CHOOSE i \in hits : \A j \in hits : j <= i) + 1]

\* parser.MgekoUrlToName: the loop returns at the first part equal to
\* "manga" that has a part after it.
MgekoUrlToName(url) ==
    LET parts == Split(url)
        hits == {i \in 1..Len(parts) : parts[i] = MangaWord /\ i + 1 <= Len(parts)}
    IN IF hits = {} THEN <<>>
       ELSE parts[(CHOOSE i \in hits : \A j \in hits : i <= j) + 1]

\* Segments of URLs: "manga", "", "ab", "cd", "mangas", "all-chapters".
UrlSegments ==
    {MangaWord, <<>>, <<97, 98>>, <<99, 100>>, <<109, 97, 110, 103, 97, 115>>,
     <<97, 108, 108, 45, 99, 104, 97, 112, 116, 101, 114, 115>>}
MgekoUrls ==
    UNION {{[segs |-> sg, text |-> JoinSlash(sg)] : sg \in [1..n -> UrlSegments]}
                : n \in 1..MaxSegments}

\* main, case "mgeko": `targetName := parser.MgekoUrlToName(*urlFlag)`
ApplyMgekoUrlToName ==
    /\ mgName = <<>>
    /\ mgName' = <<MgekoUrlToName(mgUrl.text)>>
    /\ UNCHANGED mgUrl
    /\ UNCHANGED <<fetchVars, pipeVars, nameVars, cbzVars, pageVars, backoffVars>>

InitMgeko ==
    /\ FetchIdle /\ PipeIdle /\ NamesIdle /\ CbzIdle /\ PagesIdle /\ BackoffIdle
    /\ mgUrl \in MgekoUrls
    /\ mgName = <<>>
NextMgeko == ApplyMgekoUrlToName
SpecMgeko == InitMgeko /\ [][NextMgeko]_vars

(***************************************************************************)
(* webClient.FetchWithBackoff and webClient.FetchChapterPage               *)
(***************************************************************************)
initialBackoff == 10
maxBackoff == 320
maxRetriesAtMax == 3
MaxRequests == 2

\* What client.Do and the read of the body can give FetchWithBackoff, and
\* what a visit of the chapter page can give FetchChapterPage.
NoAnswer == [kind |-> "none", status |-> 0, body |-> NoBody, readOk |-> FALSE]
TimeoutAnswer == [kind |-> "timeout", status |-> 0, body |-> NoBody, readOk |-> FALSE]
ErrorAnswer == [kind |-> "error", status |-> 0, body |-> NoBody, readOk |-> FALSE]
BlankBody == <<32, 10>>
BackoffAnswers ==
    {TimeoutAnswer, ErrorAnswer}
        \cup {[kind |-> "http", status |-> st, body |-> b, readOk |-> TRUE]
                : st \in {200, 404, 500, 525}, b \in {JpegBody, HtmlBody}}
        \cup {[kind |-> "http", status |-> 200, body |-> JpegBody, readOk |-> FALSE]}
ChapterPageAnswers ==
    {TimeoutAnswer, ErrorAnswer}
        \cup {[kind |-> "http", status |-> 200, body |-> b, readOk |-> TRUE]
                : b \in {HtmlBody, BlankBody}}

\* `retriesAtMax >= maxRetriesAtMax`
AtMaxExhaustedLate(r) == r > maxRetriesAtMax
AtMaxExhausted(r) == r >= maxRetriesAtMax

\* Doubling without the test against maxBackoff.
BackoffUncapped(b, r) == [backoff |-> b * 2, retriesAtMax |-> r, fail |-> FALSE]

\* The statements after time.Sleep(backoff): the backoff is doubled up to
\* maxBackoff; at maxBackoff the retries are counted and the function gives
\* up (fail) at maxRetriesAtMax.
BackoffAfterFailure(b, r) ==
    IF b < maxBackoff
    THEN [backoff |-> IF b * 2 > maxBackoff THEN maxBackoff ELSE b * 2,
          retriesAtMax |-> r, fail |-> FALSE]
    ELSE [backoff |-> b, retriesAtMax |-> r + 1, fail |-> AtMaxExhausted(r + 1)]

\* The statements before a successful return of FetchWithBackoff.
BackoffAfterSuccess(b) ==
    IF b > initialBackoff
    THEN IF b \div 2 < initialBackoff THEN initialBackoff ELSE b \div 2
    ELSE b

\* The caller invokes one of the functions: the locals are initialised.
BackoffCall ==
    /\ bPc = "idle" /\ bCalls < MaxRequests
    /\ bFunc' \in {"FetchWithBackoff", "FetchChapterPage"}
    /\ bPc' = "loop"
    /\ backoff' = initialBackoff /\ retriesAtMax' = 0 /\ bAttempt' = 1
    /\ delays' = <<>> /\ bLast' = NoAnswer
    /\ bResult' = NoResult
    /\ bCalls' = bCalls + 1
    /\ UNCHANGED prevPeak
    /\ UNCHANGED <<fetchVars, pipeVars, nameVars, cbzVars, pageVars, mgekoVars>>

\* The failure branch both functions share: sleep, then raise the backoff
\* or count the retry at the ceiling.
SleepAndBackOff ==
    LET u == BackoffAfterFailure(backoff, retriesAtMax) IN
    /\ delays' = Append(delays, backoff)
    /\ backoff' = u.backoff /\ retriesAtMax' = u.retriesAtMax
    /\ IF u.fail
       THEN /\ bPc' = "done" /\ bResult' = [body |-> NoBody, err |-> "exhausted"]
            /\ UNCHANGED bAttempt
       ELSE /\ bAttempt' = bAttempt + 1
            /\ UNCHANGED <<bPc, bResult>>
    /\ prevPeak' = IF u.fail THEN 0 ELSE prevPeak

\* One iteration of the loop of FetchWithBackoff.
FetchWithBackoffAttempt ==
    /\ bPc = "loop" /\ bFunc = "FetchWithBackoff"
    /\ \E r \in BackoffAnswers :
        /\ bLast' = r
        /\ IF r.kind = "timeout" THEN SleepAndBackOff
           ELSE IF r.kind = "error" \/ ~r.readOk
           THEN /\ bPc' = "done"
                /\ bResult' = [body |-> NoBody, err |-> IF r.kind = "error" THEN "transport" ELSE "read"]
                /\ prevPeak' = 0
                /\ UNCHANGED <<backoff, retriesAtMax, bAttempt, delays>>
           ELSE /\ backoff' = BackoffAfterSuccess(backoff)
                /\ retriesAtMax' = 0
                /\ prevPeak' = backoff
                /\ bPc' = "done"
                /\ bResult' = [body |-> r.body, err |-> "nil"]
                /\ UNCHANGED <<bAttempt, delays>>
    /\ UNCHANGED <<bFunc, bCalls>>
    /\ UNCHANGED <<fetchVars, pipeVars, nameVars, cbzVars, pageVars, mgekoVars>>

\* One iteration of the loop of FetchChapterPage: the visit succeeded with
\* a page that is not blank, or the function sleeps and backs off.
FetchChapterPageAttempt ==
    /\ bPc = "loop" /\ bFunc = "FetchChapterPage"
    /\ \E r \in ChapterPageAnswers :
        /\ bLast' = r
        /\ IF r.kind = "http" /\ TrimSpace(r.body) # <<>>
           THEN /\ bPc' = "done"
                /\ bResult' = [body |-> r.body, err |-> "nil"]
                /\ prevPeak' = 0
                /\ UNCHANGED <<backoff, retriesAtMax, bAttempt, delays>>
           ELSE SleepAndBackOff
    /\ UNCHANGED <<bFunc, bCalls>>
    /\ UNCHANGED <<fetchVars, pipeVars, nameVars, cbzVars, pageVars, mgekoVars>>

\* The caller takes the result and goes on.
BackoffReturn ==
    /\ bPc = "done"
    /\ bPc' = "idle"
    /\ UNCHANGED <<bFunc, backoff, retriesAtMax, bAttempt, delays, bLast, bResult, bCalls,
                   prevPeak>>
    /\ UNCHANGED <<fetchVars, pipeVars, nameVars, cbzVars, pageVars, mgekoVars>>

InitBackoff ==
    /\ FetchIdle /\ PipeIdle /\ NamesIdle /\ CbzIdle /\ PagesIdle /\ MgekoIdle
    /\ BackoffIdle
NextBackoff ==
    BackoffCall \/ FetchWithBackoffAttempt \/ FetchChapterPageAttempt \/ BackoffReturn
SpecBackoff == InitBackoff /\ [][NextBackoff]_vars

(***************************************************************************)
(* Properties of webClient.FetchImageBytes                                 *)
(***************************************************************************)
\* An attempt that ended in a transport error or a 5xx/525 status.
TransientFailure(r) ==
    r.kind = "transport" \/ (r.kind = "http" /\ (r.status \in 500..599 \/ r.status = 525))

RECURSIVE FirstNonSpace(_, _)
FirstNonSpace(s, i) ==
    IF i > Len(s) THEN i
    ELSE IF s[i] \in {9, 10, 11, 12, 13, 32} THEN FirstNonSpace(s, i + 1)
    ELSE i

StartsAt(s, i, p) == i + Len(p) - 1 <= Len(s) /\ \A k \in 1..Len(p) : s[i + k - 1] = p[k]

\* The body begins, after leading white space, with <!DOCTYPE or <html.
BeginsWithMarkup(body) ==
    LET i == FirstNonSpace(body, 1) IN StartsAt(body, i, Doctype) \/ StartsAt(body, i, HtmlTag)

\* C8: a call makes at most 3 request attempts, and it returns the
\* `failed after 3 attempts` error exactly when it made 3 attempts that all
\* ended in a transport error or a 5xx/525 status.
C8_AtMostThreeAttempts ==
    /\ Len(fResponses) <= 3
    /\ (fPc = "loop" => fAttempt = Len(fResponses) + 1)
    /\ (fPc = "done" =>
            ((fResult.err = "exhausted")
                <=> (Len(fResponses) = 3 /\ \A i \in 1..3 : TransientFailure(fResponses[i]))))

C8_Witness ==
    /\ fPc = "done" /\ fResult.err = "exhausted"
    /\ fResponses[1].kind = "transport" /\ fResponses[2].status = 525 /\ fResponses[3].status = 503

\* The answers of the current call were 503, 503 and then a good image.
Unavailable(r) == r.kind = "http" /\ r.status = 503
GoodImage(r) ==
    /\ r.kind = "http" /\ r.status = 200 /\ r.readOk
    /\ StartsAt(r.ctype, 1, imagePrefix)
    /\ ~BeginsWithMarkup(r.body)
TwiceUnavailableThenGood ==
    /\ Len(fResponses) = 3
    /\ Unavailable(fResponses[1]) /\ Unavailable(fResponses[2]) /\ GoodImage(fResponses[3])

\* C9: after 503, 503 and a good third response the call returns the third
\* body without error, and the next call starts from the initial retry state.
C9_RecoversAndResets ==
    /\ []((fPc = "done" /\ TwiceUnavailableThenGood)
            => fResult = [body |-> fResponses[3].body, err |-> "nil"])
    /\ [][(TwiceUnavailableThenGood /\ fPc = "idle" /\ fPc' = "loop")
            => (fAttempt' = 1 /\ fLastErr' = "nil")]_vars

C9_Witness == fPc = "idle" /\ fCalls = 1 /\ TwiceUnavailableThenGood /\ fResult.err = "nil"

\* C10: a 200 response whose body begins (after leading white space) with
\* <!DOCTYPE or <html makes the call return an error and no body, whatever
\* the Content-Type.
C10_HtmlBodyIsAnError ==
    (/\ fPc = "done"
     /\ fResponses # <<>>
     /\ LET r == fResponses[Len(fResponses)] IN
          r.kind = "http" /\ r.status = 200 /\ BeginsWithMarkup(r.body))
    => (fResult.err # "nil" /\ fResult.body = NoBody)

C10_Witness ==
    /\ fPc = "done" /\ fResult.err = "html"
    /\ LET r == fResponses[Len(fResponses)] IN
          r.body = SpacedHtmlBody /\ r.ctype = ImageJpegType /\ r.status = 200 /\ r.readOk

(***************************************************************************)
(* Properties of the download functions                                    *)
(***************************************************************************)
\* The names of the ".cbz" files (not directories) the run found.
CbzFilesAtStart ==
    {n \in DOMAIN startFs : startFs[n].kind # "dir" /\ Len(n) >= 4 /\ StartsAt(n, Len(n) - 3, CbzExt)}

\* The run is past the statements that compute its queue.
Reconciled == idx >= 1

\* C1: in asura.DownloadChapters the work queue is the remote keys minus the
\* names of the .cbz files the destination directory held when the run
\* started: no key with an archive is queued or processed, every other
\* remote key is queued exactly once, and each queued key maps to the URL
\* the listing gave for it.
C1_QueueIsRemoteMinusLocal ==
    (site = "asura" /\ Reconciled) =>
        LET todo == (DOMAIN remote) \ CbzFilesAtStart IN
        /\ Range(queue) = todo
        /\ Len(queue) = Cardinality(todo)
        /\ \A i \in 1..Len(queue) : chapterMap[queue[i]] = remote[queue[i]]
        /\ Range(processed) \subseteq todo

C1_Witness ==
    /\ site = "asura" /\ run = 1 /\ pc = "done"
    /\ CbzFilesAtStart = {ChapterKey(1)}
    /\ queue = <<ChapterKey(2)>>
    /\ processed = <<ChapterKey(2)>>
    /\ ChapterKey(2) \in DOMAIN fs /\ fs[ChapterKey(2)].kind = "zip"

\* Positions of the process inside the body of the chapter loop.
InChapter == pc \in {"mktemp", "append", "images", "zip", "after"}

C4_NoArchiveWithoutImages ==
    site \in HandlerSites =>
        \A k \in DOMAIN wanted : wanted[k] = <<>> => k \notin DOMAIN fs

\* The names of the entries of an archive, in order.
EntryNames(e) == [i \in 1..Len(e.entries) |-> e.entries[i].name]

\* C5: a file at a chapter's archive name is a complete archive of the
\* chapter's saved pages whenever no write to it is under way, also after
\* an error inside CreateCbzFromDir and after the exit a signal causes.
C5_ArchiveAlwaysComplete ==
    pc # "zip" =>
        \A n \in DOMAIN fs :
            fs[n].kind = "zip" => (fs[n].closed /\ EntryNames(fs[n]) = wanted[n])

\* C6: ravenscans.DownloadMangaChapters leaves every archive the directory
\* held at the start of the run as it was, and processes no chapter that
\* has one.
C6_ExistingArchivesUntouched ==
    site = "ravenscans" =>
        /\ \A n \in DOMAIN startFs :
              startFs[n].kind = "old" => (n \in DOMAIN fs /\ fs[n] = startFs[n])
        /\ Range(processed) \cap CbzFilesAtStart = {}

\* C7: no page file and no archive entry holds a body that begins with
\* "<!DOCTYPE" or "<html", on the parser.DownloadAndConvertToJPG path
\* (mgeko) and on the kunmanga.downloadKunMangaImage path.
Markup(bytes) == StartsAt(bytes, 1, Doctype) \/ StartsAt(bytes, 1, HtmlTag)
C7_NoHtmlPageSaved ==
    site \in {"mgeko", "kunmanga"} =>
        /\ \A d \in DOMAIN tmpfs : \A f \in DOMAIN tmpfs[d] : ~Markup(tmpfs[d][f])
        /\ \A n \in DOMAIN fs :
              /\ ~Markup(fs[n].bytes)
              /\ \A i \in 1..Len(fs[n].entries) : ~Markup(fs[n].entries[i].bytes)

(***************************************************************************)
(* Properties of the naming functions                                      *)
(***************************************************************************)
\* The number a token was written from, in thousandths.
TokenValue(tok) == tok.int * 1000 + Thousandths(tok.frac)

\* The digits that follow "ch" in a name.
IntegerPart(name) == LeadingRun(SubSeq(name, Len(ChPrefix) + 1, Len(name)), DigitBytes)

\* C11: for any two chapter tokens with numeric values a < b (whole,
\* fractional, and 1000 or more), the key parser.CreateFilename makes for a
\* sorts strictly before the key it makes for b in byte-wise order.
C11_KeysSortByNumber ==
    nPc = "parser" =>
        \A i, j \in DOMAIN rawNum :
            (rawNum[i].ok /\ rawNum[j].ok /\ TokenValue(rawNum[i]) < TokenValue(rawNum[j]))
                => StrLess(filenames[i].name, filenames[j].name)

\* C12: for every n in 0..999 the key made from a token for chapter n has an
\* integer part of exactly three digits with leading zeros, and for n of
\* 1000 or more it keeps all the digits of n.
C12_ThreeDigitIntegerPart ==
    nPc \in {"parser", "manhuaus", "iluim"} =>
        \A i \in DOMAIN rawNum :
            (rawNum[i].ok /\ rawNum[i].frac = <<>> /\ rawNum[i].text = Digits(rawNum[i].int)) =>
                LET n == rawNum[i].int
                    d == IntegerPart(filenames[i].name)
                IN  /\ ~filenames[i].err
                    /\ HasPrefix(filenames[i].name, ChPrefix)
                    /\ DigitsValue(d) = n
                    /\ (n <= 999 => Len(d) = 3)
                    /\ (n >= 1000 => d = Digits(n))
                    /\ (nPc # "iluim" => filenames[i].name = ChPrefix \o d \o CbzExt)
                    /\ (nPc = "iluim" => filenames[i].name = ChPrefix \o d)

C12_Witness ==
    /\ nPc = "manhuaus"
    /\ rawNum = <<WholeToken(5), WholeToken(1000)>>
    /\ filenames[1].name = <<99, 104, 48, 48, 53, 46, 99, 98, 122>>
    /\ filenames[2].name = <<99, 104, 49, 48, 48, 48, 46, 99, 98, 122>>

\* A name of the form of a chapter key: "ch", three digits or more, an
\* optional fraction, ".cbz".
LooksLikeKey(name) ==
    /\ HasPrefix(name, ChPrefix) /\ HasSuffix(name, CbzExt)
    /\ Len(IntegerPart(name)) >= 3
    /\ LET rest == SubSeq(name, Len(ChPrefix) + Len(IntegerPart(name)) + 1,
                          Len(name) - Len(CbzExt))
       IN rest = <<>> \/ (rest[1] = Dot /\ ~AtoiFails(Tail(rest)))

\* C13: a token with no parseable number gets no usable key from
\* parser.CreateFilename, so ravenscans.chapterUrls never stores it under a
\* real-looking key, and the entry of every chapter with a number stays the
\* entry of a chapter with a number.
C13_UnparseableTokenNeverListed ==
    nPc = "ravenscans" =>
        /\ \A i \in 1..Len(filenames) :
              ~rawNum[i].ok =>
                  ~(filenames[i].name \in DOMAIN urlMap /\ LooksLikeKey(filenames[i].name))
        /\ \A j \in 1..Len(filenames) :
              rawNum[j].ok =>
                  /\ filenames[j].name \in DOMAIN urlMap
                  /\ rawNum[urlMap[filenames[j].name]].ok

\* C14: for a token with integer part i in 0..999 and a non-zero fraction f,
\* written with '.', '-' or '_', parser.CreateFilename returns "ch" + i
\* padded to three digits + "." + f + ".cbz", the digits of f unchanged.
C14_FractionKeepsPaddedInteger ==
    nPc = "parser" =>
        \A i \in DOMAIN rawNum :
            (rawNum[i].ok /\ rawNum[i].frac # <<>> /\ rawNum[i].int <= 999) =>
                filenames[i].name =
                    ChPrefix \o PadZero(Digits(rawNum[i].int), 3) \o <<Dot>>
                        \o rawNum[i].frac \o CbzExt

(***************************************************************************)
(* Properties of the error paths of the download functions                 *)
(***************************************************************************)
\* C15: in kunmanga.DownloadKunMangaChapters, once an image has had its
\* three attempts, failed or not, the image loop goes on with the next
\* image of the same chapter: a failed image is only skipped.
C15_FailedImageOnlySkipped ==
    [][(site = "kunmanga" /\ pc = "kimages" /\ imgIdx <= Len(imgs)
            /\ kAttempt = kunAttempts /\ pc' # "killed")
        => (pc' = "kimages" /\ idx' = idx /\ imgIdx' = imgIdx + 1)]_vars

\* C16: when createCBZFromDir fails in kunmanga.DownloadKunMangaChapters,
\* the chapter's scratch directory is gone when the function returns.
C16_ScratchRemovedOnArchiveError ==
    [][(site = "kunmanga" /\ pc \in {"kimages", "kzip"} /\ imgIdx > Len(imgs) /\ pc' = "loop")
        => tempDir \notin DOMAIN tmpfs']_vars

\* C17: when the image list of a queued chapter cannot be obtained in the
\* asura or stonescape DownloadChapters, only that chapter is abandoned and
\* the loop goes on with the next chapter.
C17_ImageListFailureSkipsChapter ==
    [][(site \in {"asura", "stonescape"} /\ BeginsChapter
            /\ processed' # processed /\ pc' # "mktemp")
        => (pc' = "loop" /\ idx' = idx + 1)]_vars

\* C18: when the scratch directory cannot be made in asura.DownloadChapters,
\* the run is aborted: the image loop is never entered without a scratch
\* directory and no page file is written into the destination directory.
C18_NoScratchDirAbortsRun ==
    site = "asura" =>
        /\ (tempDir = NoDir => pc \notin {"append", "images"})
        /\ \A n \in DOMAIN fs : fs[n].kind # "page"

(***************************************************************************)
(* Properties of parser.CreateCbzFromDir                                   *)
(***************************************************************************)
\* The page number a scraper-made file name begins with.
PageNumber(name) == DigitsValue(LeadingRun(name, DigitBytes))

\* C19: an archive parser.CreateCbzFromDir has finished holds exactly one
\* entry per regular file directly inside sourceDir and none for a
\* sub-directory, in ascending byte-wise order of file name and so in
\* ascending page number, whatever order the listing returned.
C19_EntriesSortedOnePerFile ==
    cPc = "nil" =>
        LET e == zipOut[1].entries
            regular == {n \in DOMAIN sourceDir : ~sourceDir[n].dir}
        IN  /\ zipOut[1].closed
            /\ {e[i].name : i \in 1..Len(e)} = regular
            /\ Len(e) = Cardinality(regular)
            /\ \A i \in 1..Len(e) : e[i].bytes = sourceDir[e[i].name].bytes
            /\ \A i, j \in 1..Len(e) :
                  i < j => /\ StrLess(e[i].name, e[j].name)
                           /\ PageNumber(e[i].name) < PageNumber(e[j].name)

\* The archive of a directory with a sub-directory and two pages that the
\* listing returned in descending order.
C19_Witness ==
    /\ cPc = "nil"
    /\ \E n \in DOMAIN sourceDir : sourceDir[n].dir
    /\ Len(zipOut[1].entries) = 2
    /\ \E i, j \in 1..Len(dirEntries) :
          /\ i < j /\ ~sourceDir[dirEntries[i]].dir /\ ~sourceDir[dirEntries[j]].dir
          /\ StrLess(dirEntries[j], dirEntries[i])

(***************************************************************************)
(* Properties of parser.DownloadAndConvertToJPG                            *)
(***************************************************************************)
\* C20: whenever two images of a chapter's list are both saved through
\* parser.DownloadAndConvertToJPG, the file name of the earlier one sorts
\* strictly before the file name of the later one.
C20_FileNamesFollowListOrder ==
    \A i, j \in 1..Len(saved) :
        (i < j /\ ~saved[i].err /\ ~saved[j].err)
            => StrLess(saved[i].name, saved[j].name)

C22_SignalRemovesEveryScratchDir ==
    (site \in HandlerSites /\ pc = "killed") => DOMAIN tmpfs = {}

\* C27: when the asura or stonescape DownloadChapters has returned normally,
\* every path it appended to tempDirList has been removed.
C27_ScratchDirsGoneOnReturn ==
    (site \in HandlerSites /\ pc = "done") =>
        \A i \in 1..Len(tempDirList) : tempDirList[i] \notin DOMAIN tmpfs

(***************************************************************************)
(* Properties of parser.MgekoUrlToName                                     *)
(***************************************************************************)
\* C23: parser.MgekoUrlToName returns the segment that immediately follows
\* the first segment equal to "manga" of the URL split on '/', with or
\* without a trailing all-chapters part, and "" for a URL without a
\* "manga" segment.
C23_SegmentAfterFirstManga ==
    mgName # <<>> =>
        LET segs == mgUrl.segs
            mangaAt == {i \in 1..Len(segs) : segs[i] = <<109, 97, 110, 103, 97>>}
        IN IF mangaAt = {} THEN mgName[1] = <<>>
           ELSE LET f == CHOOSE i \in mangaAt : \A j \in mangaAt : i <= j
                IN f < Len(segs) => mgName[1] = segs[f + 1]

\* The name taken from manga/ab/all-chapters.
C23_Witness ==
    /\ mgUrl.text = <<109, 97, 110, 103, 97, 47, 97, 98, 47,
                      97, 108, 108, 45, 99, 104, 97, 112, 116, 101, 114, 115>>
    /\ mgName = <<<<97, 98>>>>

(***************************************************************************)
(* Properties of webClient.FetchWithBackoff and webClient.FetchChapterPage *)
(***************************************************************************)
\* The delays of a call that never succeeds.
CeilingDelays == <<10, 20, 40, 80, 160, 320, 320, 320>>

\* C24: under failure webClient.FetchChapterPage sleeps 10s, 20s, 40s, 80s,
\* 160s and then 320s before its retries, and it returns the
\* permanent-failure error exactly after 3 failed attempts made with the
\* backoff at 320s; it makes no further attempt.
C24_BoundedBackoffThenError ==
    (bFunc = "FetchChapterPage" /\ bCalls >= 1) =>
        /\ Len(delays) <= Len(CeilingDelays)
        /\ \A i \in 1..Len(delays) : delays[i] = CeilingDelays[i]
        /\ (bPc = "loop" => bAttempt = Len(delays) + 1 /\ Len(delays) < Len(CeilingDelays))
        /\ (bPc # "loop" =>
                ((bResult.err = "exhausted")
                    <=> Cardinality({i \in 1..Len(delays) : delays[i] = 320}) = 3))

C24_Witness ==
    /\ bFunc = "FetchChapterPage" /\ bPc = "done"
    /\ bResult.err = "exhausted"
    /\ delays = <<10, 20, 40, 80, 160, 320, 320, 320>>

\* C25: webClient.FetchWithBackoff treats a response with status 5xx or 525
\* as a retryable failure: after such a response it has slept and is back
\* in its loop, and it has not returned the body as a success.
C25_ServerErrorIsRetried ==
    (bFunc = "FetchWithBackoff" /\ bLast.kind = "http" /\ bLast.status \in 500..599) =>
        /\ bPc = "loop"
        /\ delays # <<>>
        /\ bResult.err # "nil"

\* C26: after failures have raised the backoff of a FetchWithBackoff call to
\* b > 10s and the call has succeeded, the first retry delay of the next
\* request is max(10s, b/2).
C26_HalvedBackoffCarriesOver ==
    (bFunc = "FetchWithBackoff" /\ bPc = "loop" /\ prevPeak > 10 /\ delays # <<>>) =>
        delays[1] = (IF prevPeak \div 2 < 10 THEN 10 ELSE prevPeak \div 2)

C28_DistinctArchiveNames ==
    site = "kunmanga" =>
        \A i, j \in 1..Len(queue) :
            (i # j /\ queue[i].Slug # queue[j].Slug)
                => CbzName(queue[i].Number) # CbzName(queue[j].Number)

\* C29: within one chapter parser.DownloadAndConvertToJPG never writes two
\* image URLs to the same file name: the scratch directory holds as many
\* files as images were saved, and every saved page is still the file of
\* its own URL.
C29_OneFilePerSavedImage ==
    /\ Cardinality(DOMAIN targetDir) = Cardinality({i \in 1..Len(saved) : ~saved[i].err})
    /\ \A i \in 1..Len(saved) :
          ~saved[i].err => targetDir[saved[i].name].url = i
====
